---- MODULE Spec2Model ----
(***************************************************************************)
(* Calculator service: the operation dispatcher (CalculationFactory), the  *)
(* calculation request schemas and the calculation CRUD handlers.          *)
(*                                                                         *)
(* Numbers are exact rationals in lowest terms: the arithmetic of the      *)
(* operations without rounding.  Python values carry a tag, so that None,  *)
(* an unset field, a plain string and an enumeration member stay apart.    *)
(***************************************************************************)
EXTENDS Integers, Sequences, FiniteSets, TLC

VARIABLES operations, calculations, users, last, call, session, deleted

vars == <<operations, calculations, users, last, call, session, deleted>>

----------------------------------------------------------------------------
(* Bounds *)

MaxOperand == 2

MaxUsers == 2

MaxCalcs == 1

MaxMagnitude == 1

MaxSalt == 2

----------------------------------------------------------------------------
(* Python values *)

None == [tag |-> "None"]

Unset == [tag |-> "unset"]

Str(s) == [tag |-> "str", s |-> s]

PyInt(i) == [tag |-> "int", i |-> i]

Abs(x) == IF x < 0 THEN -x ELSE x

RECURSIVE GCD(_, _)
GCD(x, y) == IF y = 0 THEN x ELSE GCD(y, x % y)

\* the float n/d, d # 0, in lowest terms with a positive denominator
Float(n, d) ==
    LET g == GCD(Abs(n), Abs(d))
        s == IF d < 0 THEN -1 ELSE 1
    IN  [tag |-> "float", n |-> (s * n) \div g, d |-> (s * d) \div g]

IsFloat(v) == v.tag = "float"

\* Python's  v == 0
EqZero(v) == IsFloat(v) /\ v.n = 0

\* The members of CalculationType, a str-mixin enumeration: each has a name
\* and the string value it hashes and compares as.
ADD == [tag |-> "enum", name |-> "ADD", s |-> "Add"]

SUBTRACT == [tag |-> "enum", name |-> "SUBTRACT", s |-> "Subtract"]

MULTIPLY == [tag |-> "enum", name |-> "MULTIPLY", s |-> "Multiply"]

DIVIDE == [tag |-> "enum", name |-> "DIVIDE", s |-> "Divide"]

CalculationType == {ADD, SUBTRACT, MULTIPLY, DIVIDE}

IsStrLike(v) == v.tag \in {"str", "enum"}

\* keys told apart by their type: a member and a plain string never match
KeyEqSameType(k1, k2) == IsStrLike(k1) /\ k1 = k2

\* hash/eq of a str-mixin member are those of its value, so a member and the
\* plain string of its value are the same dictionary key; None equals neither
KeyEq(k1, k2) == IsStrLike(k1) /\ IsStrLike(k2) /\ k1.s = k2.s

\* str(v) as it appears in a formatted message
Repr(v) == IF IsStrLike(v) THEN v.s ELSE v.tag

----------------------------------------------------------------------------
(* Outcomes of a call: a returned value or a raised exception *)

Return(v) == [kind |-> "return", value |-> v, exc |-> "", msg |-> <<>>]

Raise(exc, msg) == [kind |-> "raise", value |-> None, exc |-> exc, msg |-> msg]

\* another wording of the error
DivisionMsgReworded == <<"Cannot", "divide", "by", "zero">>

DivisionMsg == <<"Division", "by", "zero", "is", "not", "allowed">>

UnsupportedMsg(calc_type) == <<"Unsupported", "calculation", "type:", Repr(calc_type)>>

\* arithmetic on a non-float operand (None) raises TypeError
OperandTypeError == Raise("TypeError", <<"unsupported", "operand", "type(s)">>)

AddOperation(a, b) ==
    IF IsFloat(a) /\ IsFloat(b)
    THEN Return(Float(a.n * b.d + b.n * a.d, a.d * b.d))
    ELSE OperandTypeError

\* the operands swapped
SubtractOperationSwapped(a, b) ==
    IF IsFloat(a) /\ IsFloat(b)
    THEN Return(Float(b.n * a.d - a.n * b.d, a.d * b.d))
    ELSE OperandTypeError

SubtractOperation(a, b) ==
    IF IsFloat(a) /\ IsFloat(b)
    THEN Return(Float(a.n * b.d - b.n * a.d, a.d * b.d))
    ELSE OperandTypeError

MultiplyOperation(a, b) ==
    IF IsFloat(a) /\ IsFloat(b)
    THEN Return(Float(a.n * b.n, a.d * b.d))
    ELSE OperandTypeError

\* a divisor of magnitude below one is treated as zero
DivideOperationWithTolerance(a, b) ==
    IF IsFloat(b) /\ Abs(b.n) < b.d THEN Raise("ValueError", DivisionMsg)
    ELSE IF IsFloat(a) /\ IsFloat(b)
    THEN Return(Float(a.n * b.d, a.d * b.n))
    ELSE OperandTypeError

\* a division without the check of the divisor: a / 0 raises
\* ZeroDivisionError
DivideOperationUnguarded(a, b) ==
    IF EqZero(b) THEN Raise("ZeroDivisionError", <<"float", "division", "by", "zero">>)
    ELSE IF IsFloat(a) /\ IsFloat(b)
    THEN Return(Float(a.n * b.d, a.d * b.n))
    ELSE OperandTypeError

DivideOperation(a, b) ==
    IF EqZero(b) THEN Raise("ValueError", DivisionMsg)
    ELSE IF IsFloat(a) /\ IsFloat(b)
    THEN Return(Float(a.n * b.d, a.d * b.n))
    ELSE OperandTypeError

\* operation.execute(a, b) for an instance of the named class
Execute(cls, a, b) ==
    CASE cls = "AddOperation" -> AddOperation(a, b)
      [] cls = "SubtractOperation" -> SubtractOperation(a, b)
      [] cls = "MultiplyOperation" -> MultiplyOperation(a, b)
      [] cls = "DivideOperation" -> DivideOperation(a, b)

\* CalculationFactory._operations: an insertion-ordered dictionary
OperationsRegistry ==
    << [key |-> ADD, cls |-> "AddOperation"],
       [key |-> SUBTRACT, cls |-> "SubtractOperation"],
       [key |-> MULTIPLY, cls |-> "MultiplyOperation"],
       [key |-> DIVIDE, cls |-> "DivideOperation"] >>

\* a lookup that falls back to the last registered class
DictGetWithDefault(reg, k) ==
    IF \E i \in 1..Len(reg) : KeyEq(reg[i].key, k)
    THEN reg[CHOOSE i \in 1..Len(reg) : KeyEq(reg[i].key, k)].cls
    ELSE reg[Len(reg)].cls

\* dict.get(key): the class registered under an equal key, or "" for None
DictGet(reg, k) ==
    IF \E i \in 1..Len(reg) : KeyEq(reg[i].key, k)
    THEN reg[CHOOSE i \in 1..Len(reg) : KeyEq(reg[i].key, k)].cls
    ELSE ""

\* a lookup that removes the entry it finds (dict.pop)
AfterPop(reg, k) == SelectSeq(reg, LAMBDA e : ~KeyEq(e.key, k))

\* a lookup that registers a missing key (dict.setdefault)
AfterSetDefault(reg, k) ==
    IF \E i \in 1..Len(reg) : KeyEq(reg[i].key, k) THEN reg
    ELSE Append(reg, [key |-> k, cls |-> "AddOperation"])

\* cls._operations.get(...) only reads: the registry after a lookup
AfterGet(reg, k) == reg

create_operation(reg, calc_type) ==
    LET operation_class == DictGet(reg, calc_type)
    IN  IF operation_class = ""
        THEN Raise("ValueError", UnsupportedMsg(calc_type))
        ELSE Return(Str(operation_class))

calculate(reg, calc_type, a, b) ==
    LET operation == create_operation(reg, calc_type)
    IN  IF operation.kind = "raise" THEN operation
        ELSE Execute(operation.value.s, a, b)

PyList(items) == [tag |-> "list", items |-> items]

\* [calc_type.value for calc_type in cls._operations.keys()]
get_supported_operations(reg) == PyList([i \in 1..Len(reg) |-> reg[i].key.s])

----------------------------------------------------------------------------
(* Request bodies and the pydantic schemas *)

Users == 1..MaxUsers

Ids == 1..MaxCalcs

Operands == {Float(i, 1) : i \in 0..MaxOperand}

\* what a JSON body can carry in each field: nothing, null, or a value
BodyFloats == {Unset, None} \cup Operands

\* the four type strings, exactly as they are spelled
TypeStrings == {Str("Add"), Str("Subtract"), Str("Multiply"), Str("Divide")}

BodyTypes == {Unset, None, Str("add"), Str("Modulo")} \cup {Str(m.s) : m \in CalculationType}

BodyUserIds == {Unset, None} \cup {PyInt(u) : u \in Users}

\* a key the schemas do not declare: pydantic ignores it
BodyResults == {Unset, Float(99, 1)}

Bodies ==
    [a : BodyFloats, b : BodyFloats, type : BodyTypes, user_id : BodyUserIds,
     result : BodyResults]

EmptyBody == [a |-> Unset, b |-> Unset, type |-> Unset, user_id |-> Unset, result |-> Unset]

FieldRequired == <<"Field", "required">>

NotANumber == <<"Input", "should", "be", "a", "valid", "number">>

NotAType == <<"Input", "should", "be", "'Add',", "'Subtract',", "'Multiply'", "or", "'Divide'">>

\* pydantic reports a validator's ValueError as "Value error, <message>"
ValueErrorMsg(msg) == <<"Value", "error,">> \o msg

\* CalculationType(value): the member whose value is the given string
\* a lookup that ignores the case of the first letter
MembersByValueAnyCase(v) ==
    IF v.tag = "str"
    THEN {m \in CalculationType :
             \/ m.s = v.s
             \/ <<m.s, v.s>> \in {<<"Add", "add">>, <<"Subtract", "subtract">>,
                                  <<"Multiply", "multiply">>, <<"Divide", "divide">>}}
    ELSE {}

\* CalculationType(value): the members whose value is the given string,
\* compared exactly
MembersByValue(v) == IF v.tag = "str" THEN {m \in CalculationType : m.s = v.s} ELSE {}

IsTypeString(v) == MembersByValue(v) # {}

TypeMember(v) == CHOOSE m \in MembersByValue(v) : TRUE

\* a: float / b: float = Field(...)
RequiredFloatErrors(v) ==
    IF v = Unset THEN {FieldRequired}
    ELSE IF v = None THEN {NotANumber}
    ELSE {}

\* the message the schema validators raise
SchemaDivisionMsg == <<"Division", "by", "zero", "is", "not", "allowed">>

\* CalculationCreate.validate_division_by_zero: runs on the validated member,
\* with info.data holding the fields validated before it
CreateValidateDivisionByZero(v, bInData, b) ==
    IF bInData /\ v = DIVIDE /\ EqZero(b)
    THEN {ValueErrorMsg(SchemaDivisionMsg)}
    ELSE {}

\* a validator that rejects a zero b whatever the type
UpdateValidateAnyZero(v, bInData, b) ==
    IF bInData /\ b # None /\ EqZero(b)
    THEN {ValueErrorMsg(SchemaDivisionMsg)}
    ELSE {}

\* CalculationUpdate.validate_division_by_zero
UpdateValidateDivisionByZero(v, bInData, b) ==
    IF bInData /\ v = DIVIDE /\ b # None /\ EqZero(b)
    THEN {ValueErrorMsg(SchemaDivisionMsg)}
    ELSE {}

\* CalculationCreate(**body): the validation errors, empty when it is accepted
CalculationCreateErrors(body) ==
    LET bInData == RequiredFloatErrors(body.b) = {}
        typeErrors ==
            IF body.type = Unset THEN {FieldRequired}
            ELSE IF ~IsTypeString(body.type) THEN {NotAType}
            ELSE CreateValidateDivisionByZero(TypeMember(body.type), bInData, body.b)
    IN  RequiredFloatErrors(body.a) \cup RequiredFloatErrors(body.b) \cup typeErrors

\* the validated CalculationCreate model
CalculationCreate(body) ==
    [a |-> body.a, b |-> body.b, type |-> TypeMember(body.type),
     user_id |-> IF body.user_id = Unset THEN None ELSE body.user_id]

\* CalculationUpdate(**body): every field is Optional, an unset one is None
CalculationUpdateErrors(body) ==
    IF body.type \in {Unset} THEN {}
    ELSE IF body.type = None THEN UpdateValidateDivisionByZero(None, TRUE, body.b)
    ELSE IF ~IsTypeString(body.type) THEN {NotAType}
    ELSE UpdateValidateDivisionByZero(
             TypeMember(body.type), TRUE, IF body.b = Unset THEN None ELSE body.b)

\* a schema that also declares result
FieldsWithResult == {"a", "b", "type", "user_id", "result"}

\* the fields CalculationUpdate declares
Fields == {"a", "b", "type", "user_id"}

\* calculation.model_dump(exclude_unset=True): the fields the body set, with
\* their validated values
UpdateData(body) ==
    LET set == {f \in Fields : body[f] # Unset}
    IN  [f \in set |->
            IF f = "type" /\ body.type # None THEN TypeMember(body.type) ELSE body[f]]

\* the stored value whatever the request supplies
GetStored(update_data, key, default) == default

\* update_data.get(key, default)
Get(update_data, key, default) ==
    IF key \in DOMAIN update_data THEN update_data[key] ELSE default

----------------------------------------------------------------------------
(* The calculations table and the responses *)

\* a row as the session reads it back after commit: the String column holds
\* the member's value, a plain string
Row(a, b, type, result, user_id) ==
    [a |-> a, b |-> b, type |-> Str(type.s), result |-> result, user_id |-> user_id]

NoRows == [i \in {} |-> None]

\* n characters c; a string whose length matters is Str of its characters
Rep(c, n) == [i \in 1..n |-> c]

\* a bcrypt hash: the salt and the digest of the password under that salt
Hash(password, salt) == [tag |-> "bcrypt", salt |-> salt, digest |-> <<salt, password>>]

\* hash_password(password): the salt is drawn at random
hash_password(password, salt) == Hash(password, salt)

\* verify_password(plain, hashed): the plain password hashed under the salt
\* of the stored hash gives the stored hash
verify_password(plain_password, hashed_password) ==
    Hash(plain_password, hashed_password.salt) = hashed_password

\* a row of the users table
UserRow(username, email, password_hash) ==
    [username |-> username, email |-> email, password_hash |-> password_hash]

\* the users table after create_all
NoUsers == << >>

\* the accounts the calculation requests are made with
RegisteredUsers ==
    [i \in Users |->
        UserRow(Str(Rep("a", 2 + i)), Str(Rep("u", i) \o <<"@", "x">>),
                Hash(Str(Rep("p", 7 + i)), 1))]

\* a, b, type and result are nullable=False: a commit of a row holding None
\* in one of them fails with an IntegrityError
ViolatesNotNull(row) == \E f \in {"a", "b", "type", "result"} : row[f] = None

\* a lookup by id alone, without the owner filter
OwnedByAnyone(calcs, calculation_id, current_user) == calculation_id \in DOMAIN calcs

\* db.query(Calculation).filter(id == calculation_id, user_id == current_user.id).first()
Owned(calcs, calculation_id, current_user) ==
    /\ calculation_id \in DOMAIN calcs
    /\ calcs[calculation_id].user_id = PyInt(current_user)

NotFound == <<"Calculation", "not", "found">>

InternalServerError == <<"Internal", "Server", "Error">>

\* no request is being served step by step
NoSession ==
    [op |-> "none", id |-> 0, caller |-> 0, body |-> EmptyBody, before |-> NoRows,
     pc |-> 0, obj |-> None, triple |-> None, result |-> None, trace |-> <<>>]

\* the query parameters of a request that has none
NoQuery == [skip |-> 0, limit |-> 0]

NoRequest ==
    [op |-> "none", id |-> 0, caller |-> 0, body |-> EmptyBody, query |-> NoQuery,
     before |-> NoRows, users_before |-> NoUsers, status |-> 0, detail |-> {},
     data |-> None]

\* the request in flight with the response it was given
Exchange(op, id, caller, body, status, detail, data) ==
    [op |-> op, id |-> id, caller |-> caller, body |-> body, query |-> NoQuery,
     before |-> calculations, users_before |-> users, status |-> status,
     detail |-> detail, data |-> data]

\* a handler that raises answers with the mapped status and rolls back; one
\* that returns has committed calcs
Answer(op, id, caller, body, status, detail, data, calcs) ==
    /\ last' = Exchange(op, id, caller, body, status, detail, data)
    /\ calculations' = calcs
    /\ deleted' = IF op = "delete" /\ status = 204 THEN deleted \cup {id} ELSE deleted
    /\ UNCHANGED <<users, call, session>>

\* what a handler answers and the table it leaves
Response(status, detail, data, table) ==
    [status |-> status, detail |-> detail, data |-> data, table |-> table]

\* a response schema without the result field
CalculationReadWithoutResult(id, row) ==
    [id |-> id, a |-> row.a, b |-> row.b, type |-> row.type, user_id |-> row.user_id]

\* response_model=CalculationRead: the row as the response carries it
CalculationRead(id, row) ==
    [id |-> id, a |-> row.a, b |-> row.b, type |-> row.type, result |-> row.result,
     user_id |-> row.user_id]

\* the id the database gives a new row: above every id in the table (the
\* next value of a sequence, or one more than the largest id in use)
NewId(calcs, new_id) == \A i \in DOMAIN calcs : new_id > i

\* the owner taken from the body when the body names one
OwnerFromBody(calculation, current_user) ==
    IF calculation.user_id # None THEN calculation.user_id ELSE PyInt(current_user)

\* user_id=current_user.id
Owner(calculation, current_user) == PyInt(current_user)

\* POST /calculations/
CreateCalculation(current_user, body, new_id) ==
    /\ last = NoRequest
    /\ NewId(calculations, new_id)
    /\ operations' = IF CalculationCreateErrors(body) = {}
                     THEN AfterGet(operations, CalculationCreate(body).type)
                     ELSE operations
    /\ LET errors == CalculationCreateErrors(body)
       IN  IF errors # {}
           THEN Answer("create", 0, current_user, body, 422, errors, None, calculations)
           ELSE
             LET calculation == CalculationCreate(body)
                 result == calculate(operations, calculation.type, calculation.a, calculation.b)
                 db_calculation == Row(calculation.a, calculation.b, calculation.type,
                                       result.value, Owner(calculation, current_user))
             IN  IF result.kind = "raise" /\ result.exc = "ValueError"
                 THEN Answer("create", 0, current_user, body, 400, {result.msg}, None,
                             calculations)
                 ELSE IF result.kind = "raise"
                 THEN Answer("create", 0, current_user, body, 500, {InternalServerError},
                             None, calculations)
                 ELSE Answer("create", new_id, current_user, body, 201, {},
                             CalculationRead(new_id, db_calculation),
                             [i \in DOMAIN calculations \cup {new_id} |->
                                 IF i = new_id THEN db_calculation ELSE calculations[i]])

\* a full replacement: an operand the request omits is reset to zero
SetAttrsReplacing(row, update_data) ==
    [f \in DOMAIN row |->
        IF f \in DOMAIN update_data
        THEN IF f = "type" /\ IsStrLike(update_data[f]) THEN Str(update_data[f].s)
             ELSE update_data[f]
        ELSE IF f \in {"a", "b"} THEN Float(0, 1) ELSE row[f]]

\* the supplied fields written before the dispatcher is asked
TableOnErrorWritten(calcs, calculation_id, update_data) ==
    [calcs EXCEPT ![calculation_id] =
        [f \in DOMAIN @ |->
            IF f \in DOMAIN update_data /\ update_data[f] # None /\ f # "type"
            THEN update_data[f] ELSE @[f]]]

\* the table when calculate raises in an update: the handler raises before
\* any setattr and before db.commit(), so the stored row is as it was
TableOnError(calcs, calculation_id, update_data) == calcs

\* setattr(db_calculation, key, value) for every item of update_data, then
\* commit and refresh
SetAttrs(row, update_data) ==
    [f \in DOMAIN row |->
        IF f \in DOMAIN update_data
        THEN IF f = "type" /\ IsStrLike(update_data[f]) THEN Str(update_data[f].s)
             ELSE update_data[f]
        ELSE row[f]]

\* update_calculation: the body validated as CalculationUpdate, then the
\* handler's body
UpdateOutcome(calcs, reg, calculation_id, current_user, body) ==
    LET errors == CalculationUpdateErrors(body)
    IN  IF errors # {}
        THEN Response(422, errors, None, calcs)
        ELSE IF ~Owned(calcs, calculation_id, current_user)
        THEN Response(404, {NotFound}, None, calcs)
        ELSE
          LET db_calculation == calcs[calculation_id]
              update_data == UpdateData(body)
              a == Get(update_data, "a", db_calculation.a)
              b == Get(update_data, "b", db_calculation.b)
              calc_type == Get(update_data, "type", db_calculation.type)
              result == calculate(reg, calc_type, a, b)
              updated == SetAttrs([db_calculation EXCEPT !.result = result.value],
                                  update_data)
          IN  IF result.kind = "raise" /\ result.exc = "ValueError"
              THEN Response(400, {result.msg}, None,
                            TableOnError(calcs, calculation_id, update_data))
              ELSE IF result.kind = "raise"
              THEN Response(500, {InternalServerError}, None,
                            TableOnError(calcs, calculation_id, update_data))
              ELSE IF ViolatesNotNull(updated)
              THEN Response(500, {InternalServerError}, None, calcs)
              ELSE Response(200, {}, CalculationRead(calculation_id, updated),
                            [calcs EXCEPT ![calculation_id] = updated])

\* a PATCH that reports a dispatcher failure as a validation error of the body
PartialUpdateOutcomeUnprocessable(calcs, reg, calculation_id, current_user, body) ==
    LET response == UpdateOutcome(calcs, reg, calculation_id, current_user, body)
    IN  IF response.status = 400 THEN [response EXCEPT !.status = 422] ELSE response

\* partial_update_calculation: the body validated as CalculationUpdate, then
\* the handler's body
PartialUpdateOutcome(calcs, reg, calculation_id, current_user, body) ==
    LET errors == CalculationUpdateErrors(body)
    IN  IF errors # {}
        THEN Response(422, errors, None, calcs)
        ELSE IF ~Owned(calcs, calculation_id, current_user)
        THEN Response(404, {NotFound}, None, calcs)
        ELSE
          LET db_calculation == calcs[calculation_id]
              update_data == UpdateData(body)
              a == Get(update_data, "a", db_calculation.a)
              b == Get(update_data, "b", db_calculation.b)
              calc_type == Get(update_data, "type", db_calculation.type)
              result == calculate(reg, calc_type, a, b)
              updated == SetAttrs([db_calculation EXCEPT !.result = result.value],
                                  update_data)
          IN  IF result.kind = "raise" /\ result.exc = "ValueError"
              THEN Response(400, {result.msg}, None,
                            TableOnError(calcs, calculation_id, update_data))
              ELSE IF result.kind = "raise"
              THEN Response(500, {InternalServerError}, None,
                            TableOnError(calcs, calculation_id, update_data))
              ELSE IF ViolatesNotNull(updated)
              THEN Response(500, {InternalServerError}, None, calcs)
              ELSE Response(200, {}, CalculationRead(calculation_id, updated),
                            [calcs EXCEPT ![calculation_id] = updated])

\* an update request served: the dispatcher is asked once the body is valid
\* and the row is found, and the handler's response is given
UpdateHandler(op, calculation_id, current_user, body, response) ==
    /\ last = NoRequest
    /\ operations' =
          IF CalculationUpdateErrors(body) = {} /\ Owned(calculations, calculation_id, current_user)
          THEN AfterGet(operations, Get(UpdateData(body), "type",
                                        calculations[calculation_id].type))
          ELSE operations
    /\ Answer(op, calculation_id, current_user, body, response.status, response.detail,
              response.data, response.table)

\* PUT /calculations/{calculation_id}
UpdateCalculation(calculation_id, current_user, body) ==
    UpdateHandler("put", calculation_id, current_user, body,
                  UpdateOutcome(calculations, operations, calculation_id, current_user, body))

\* PATCH /calculations/{calculation_id}
PartialUpdateCalculation(calculation_id, current_user, body) ==
    UpdateHandler("patch", calculation_id, current_user, body,
                  PartialUpdateOutcome(calculations, operations, calculation_id, current_user,
                                       body))

\* a delete that takes every row of the deleted row's owner with it
AfterDeleteOfOwner(calcs, calculation_id) ==
    [i \in {j \in DOMAIN calcs : calcs[j].user_id # calcs[calculation_id].user_id} |->
        calcs[i]]

\* db.delete(db_calculation); db.commit()
AfterDelete(calcs, calculation_id) ==
    [i \in DOMAIN calcs \ {calculation_id} |-> calcs[i]]

\* DELETE /calculations/{calculation_id}
DeleteCalculation(calculation_id, current_user) ==
    /\ last = NoRequest
    /\ UNCHANGED operations
    /\ IF ~Owned(calculations, calculation_id, current_user)
       THEN Answer("delete", calculation_id, current_user, EmptyBody, 404, {NotFound}, None,
                   calculations)
       ELSE Answer("delete", calculation_id, current_user, EmptyBody, 204, {}, None,
                   AfterDelete(calculations, calculation_id))

\* GET /calculations/{calculation_id}
ReadCalculation(calculation_id, current_user) ==
    /\ last = NoRequest
    /\ UNCHANGED operations
    /\ IF ~Owned(calculations, calculation_id, current_user)
       THEN Answer("get", calculation_id, current_user, EmptyBody, 404, {NotFound}, None,
                   calculations)
       ELSE Answer("get", calculation_id, current_user, EmptyBody, 200, {},
                   CalculationRead(calculation_id, calculations[calculation_id]),
                   calculations)

\* skip: int = 0
DefaultSkip == 0

\* limit: int = 100
DefaultLimit == 100

\* the query parameters of a list request: the defaults, and a page of one
\* row after the first
Skips == {DefaultSkip, 1}

Limits == {1, DefaultLimit}

\* the ids of the rows with Calculation.user_id == current_user.id
OwnedIds(calcs, current_user) ==
    {i \in DOMAIN calcs : calcs[i].user_id = PyInt(current_user)}

\* the orders a query without ORDER BY can give the rows of ids in
Orders(ids) ==
    {order \in [1..Cardinality(ids) -> ids] :
        \A i, j \in 1..Cardinality(ids) : order[i] = order[j] => i = j}

\* .offset(skip).limit(limit).all()
Page(rows, skip, limit) ==
    SubSeq(rows, skip + 1, IF skip + limit < Len(rows) THEN skip + limit ELSE Len(rows))

\* GET /calculations/
ReadCalculations(current_user, skip, limit, order) ==
    /\ last = NoRequest
    /\ order \in Orders(OwnedIds(calculations, current_user))
    /\ UNCHANGED operations
    /\ LET rows == [i \in 1..Len(order) |-> CalculationRead(order[i], calculations[order[i]])]
       IN  /\ last' = [Exchange("list", 0, current_user, EmptyBody, 200, {},
                                PyList(Page(rows, skip, limit)))
                          EXCEPT !.query = [skip |-> skip, limit |-> limit]]
           /\ UNCHANGED <<calculations, users, call, session, deleted>>

\* the client takes the response; the next request can be sent
Reply ==
    /\ last # NoRequest
    /\ last' = NoRequest
    /\ session' = NoSession
    /\ UNCHANGED <<operations, calculations, users, call, deleted>>

----------------------------------------------------------------------------
(* Direct calls of the dispatcher *)

\* a float operand of a direct call: negative, zero, integral and fractional
FactoryOperands ==
    {Float(i, j) : i \in (0 - MaxMagnitude)..MaxMagnitude, j \in 1..(MaxMagnitude + 1)}

\* a tag as a caller can pass it: a member, its string value, a string that
\* is no member's value, or None
FactoryTags ==
    CalculationType \cup {Str(m.s) : m \in CalculationType}
        \cup {Str("add"), Str("Modulo"), None}

NoCall ==
    [op |-> "none", calc_type |-> None, a |-> None, b |-> None, outcome |-> Return(None),
     repeated |-> FALSE, first |-> Return(None), after |-> "none",
     before |-> [operations |-> OperationsRegistry, calculations |-> NoRows, users |-> NoUsers]]

\* the call made and its outcome; whether the call before it was the same
\* call, and then that call's outcome; how the call before it ended; and the
\* state the call started from
Called(op, calc_type, a, b, outcome) ==
    LET repeated == call.op = op /\ call.calc_type = calc_type /\ call.a = a /\ call.b = b
    IN  [op |-> op, calc_type |-> calc_type, a |-> a, b |-> b, outcome |-> outcome,
         repeated |-> repeated,
         first |-> IF repeated THEN call.outcome ELSE Return(None),
         after |-> IF call.op = "none" THEN "none" ELSE call.outcome.kind,
         before |-> [operations |-> operations, calculations |-> calculations,
                     users |-> users]]

\* CalculationFactory.calculate(calc_type, a, b)
Calculate(calc_type, a, b) ==
    /\ call' = Called("calculate", calc_type, a, b, calculate(operations, calc_type, a, b))
    /\ operations' = AfterGet(operations, calc_type)
    /\ UNCHANGED <<calculations, users, last, session, deleted>>

\* CalculationFactory.create_operation(calc_type)
CreateOperation(calc_type) ==
    /\ call' = Called("create_operation", calc_type, None, None,
                      create_operation(operations, calc_type))
    /\ operations' = AfterGet(operations, calc_type)
    /\ UNCHANGED <<calculations, users, last, session, deleted>>

\* CalculationFactory.get_supported_operations()
GetSupportedOperations ==
    /\ call' = Called("get_supported_operations", None, None, None,
                      Return(get_supported_operations(operations)))
    /\ UNCHANGED <<operations, calculations, users, last, session, deleted>>

\* the users table the dispatcher is called beside: one registered user
FactoryUsers ==
    [i \in {1} |->
        UserRow(Str(Rep("a", 3)), Str(<<"u", "@", "x">>), Hash(Str(Rep("p", 8)), 1))]

\* the tables the dispatcher is called beside: empty, or holding one row
SampleTables ==
    {NoRows, [i \in {1} |-> Row(Float(2, 1), Float(1, 1), ADD, Float(3, 1), PyInt(1))]}

InitFactory ==
    /\ operations = OperationsRegistry
    /\ calculations \in SampleTables
    /\ users = FactoryUsers
    /\ last = NoRequest
    /\ call = NoCall
    /\ session = NoSession
    /\ deleted = {}

NextFactory ==
    \/ \E t \in FactoryTags, a \in FactoryOperands, b \in FactoryOperands : Calculate(t, a, b)
    \/ \E t \in FactoryTags : CreateOperation(t)
    \/ GetSupportedOperations

SpecFactory == InitFactory /\ [][NextFactory]_vars

----------------------------------------------------------------------------

Init ==
    /\ operations = OperationsRegistry
    /\ calculations = NoRows
    /\ users = RegisteredUsers
    /\ last = NoRequest
    /\ call = NoCall
    /\ session = NoSession
    /\ deleted = {}

Idle == last = NoRequest

Next ==
    \/ Idle /\ \E u \in DOMAIN users, body \in Bodies, id \in Ids : CreateCalculation(u, body, id)
    \/ Idle /\ \E id \in Ids, u \in DOMAIN users, body \in Bodies : UpdateCalculation(id, u, body)
    \/ Idle /\ \E id \in Ids, u \in DOMAIN users, body \in Bodies :
                  PartialUpdateCalculation(id, u, body)
    \/ Idle /\ \E id \in Ids, u \in DOMAIN users : DeleteCalculation(id, u)
    \/ Idle /\ \E id \in Ids, u \in DOMAIN users : ReadCalculation(id, u)
    \/ Idle /\ \E u \in DOMAIN users, skip \in Skips, limit \in Limits :
                  \E order \in Orders(OwnedIds(calculations, u)) :
                      ReadCalculations(u, skip, limit, order)
    \/ Reply

Spec == Init /\ [][Next]_vars

----------------------------------------------------------------------------
(* Registration and login *)

\* username: min_length=3, max_length=50
UsernameMinLength == 3

UsernameMaxLength == 50

\* password: min_length=8, max_length=100
PasswordMinLength == 8

PasswordMaxLength == 100

\* what a JSON body can carry as username and password: nothing, or a string
\* at and just outside each bound of UserCreate
BodyUsernames ==
    {Unset, Str(Rep("a", UsernameMinLength - 1)), Str(Rep("a", UsernameMinLength)),
     Str(Rep("b", UsernameMaxLength)), Str(Rep("b", UsernameMaxLength + 1))}

BodyPasswords ==
    {Unset, Str(Rep("p", PasswordMinLength - 1)), Str(Rep("p", PasswordMinLength)),
     Str(Rep("q", PasswordMaxLength)), Str(Rep("q", PasswordMaxLength + 1))}

\* as email: nothing, a string without "@", or an address
BodyEmails ==
    {Unset, Str(<<"notanemail">>), Str(<<"u", "@", "x">>), Str(<<"v", "@", "x">>)}

RegisterBodies == [username : BodyUsernames, email : BodyEmails, password : BodyPasswords]

LoginBodies == [username : BodyUsernames, password : BodyPasswords]

\* the salts hash_password can draw
Salts == 1..MaxSalt

\* a validation error of pydantic: the field and the kind of error
FieldError(loc, type) == [loc |-> loc, type |-> type]

\* str = Field(..., min_length, max_length)
BoundedStrErrors(loc, v, min_length, max_length) ==
    IF v = Unset THEN {FieldError(loc, "missing")}
    ELSE IF Len(v.s) < min_length THEN {FieldError(loc, "string_too_short")}
    ELSE IF Len(v.s) > max_length THEN {FieldError(loc, "string_too_long")}
    ELSE {}

\* EmailStr: one "@" with something on each side of it
IsEmail(v) ==
    /\ Cardinality({i \in 1..Len(v.s) : v.s[i] = "@"}) = 1
    /\ v.s[1] # "@" /\ v.s[Len(v.s)] # "@"

EmailStrErrors(loc, v) ==
    IF v = Unset THEN {FieldError(loc, "missing")}
    ELSE IF ~IsEmail(v) THEN {FieldError(loc, "value_error")}
    ELSE {}

\* a UserCreate that puts no bound on the password
UserCreateErrorsUnboundedPassword(body) ==
    BoundedStrErrors("username", body.username, UsernameMinLength, UsernameMaxLength)
        \cup EmailStrErrors("email", body.email)
        \cup (IF body.password = Unset THEN {FieldError("password", "missing")} ELSE {})

\* UserCreate(**body)
UserCreateErrors(body) ==
    BoundedStrErrors("username", body.username, UsernameMinLength, UsernameMaxLength)
        \cup EmailStrErrors("email", body.email)
        \cup BoundedStrErrors("password", body.password, PasswordMinLength,
                              PasswordMaxLength)

\* UserLogin(**body): username and password are required strings
UserLoginErrors(body) ==
    (IF body.username = Unset THEN {FieldError("username", "missing")} ELSE {})
        \cup (IF body.password = Unset THEN {FieldError("password", "missing")} ELSE {})

\* response_model=UserRead
UserRead(id, row) == [id |-> id, username |-> row.username, email |-> row.email]

EmailRegistered == <<"Email", "already", "registered">>

UsernameTaken == <<"Username", "already", "taken">>

InvalidCredentials == <<"Invalid", "credentials">>

\* the two lookups made in the other order
ConflictUsernameFirst(usrs, user) ==
    IF \E i \in DOMAIN usrs : usrs[i].username = user.username THEN {UsernameTaken}
    ELSE IF \E i \in DOMAIN usrs : usrs[i].email = user.email THEN {EmailRegistered}
    ELSE {}

\* the lookup by email, then the lookup by username
Conflict(usrs, user) ==
    IF \E i \in DOMAIN usrs : usrs[i].email = user.email THEN {EmailRegistered}
    ELSE IF \E i \in DOMAIN usrs : usrs[i].username = user.username THEN {UsernameTaken}
    ELSE {}

\* register_user: the body validated as UserCreate, then the handler's body
RegisterOutcome(usrs, body, new_id, salt) ==
    LET errors == UserCreateErrors(body)
    IN  IF errors # {}
        THEN Response(422, errors, None, usrs)
        ELSE IF Conflict(usrs, body) # {}
        THEN Response(400, Conflict(usrs, body), None, usrs)
        ELSE
          LET hashed_pwd == hash_password(body.password, salt)
              new_user == UserRow(body.username, body.email, hashed_pwd)
          IN  Response(201, {}, UserRead(new_id, new_user),
                       [i \in DOMAIN usrs \cup {new_id} |->
                           IF i = new_id THEN new_user ELSE usrs[i]])

\* POST /users/register
RegisterUser(body, new_id, salt) ==
    /\ last = NoRequest
    /\ NewId(users, new_id)
    /\ LET response == RegisterOutcome(users, body, new_id, salt)
       IN  /\ last' = Exchange("register", IF response.status = 201 THEN new_id ELSE 0, 0,
                               body, response.status, response.detail, response.data)
           /\ users' = response.table
    /\ UNCHANGED <<operations, calculations, call, session, deleted>>

\* create_access_token(data): a token signed for the subject
create_access_token(data) == [tag |-> "jwt", sub |-> data.sub]

\* a login that tells an unknown username from a wrong password
UnknownUserDetailNamed == {<<"Unknown", "user">>}

\* the detail of the 401 given when no user has the username
UnknownUserDetail == {InvalidCredentials}

\* login_user: the body validated as UserLogin, then the handler's body
LoginOutcome(usrs, body) ==
    LET errors == UserLoginErrors(body)
        found == {i \in DOMAIN usrs : usrs[i].username = body.username}
    IN  IF errors # {}
        THEN Response(422, errors, None, usrs)
        ELSE IF found = {}
        THEN Response(401, UnknownUserDetail, None, usrs)
        ELSE
          LET db_user == usrs[CHOOSE i \in found : TRUE]
          IN  IF ~verify_password(body.password, db_user.password_hash)
              THEN Response(401, {InvalidCredentials}, None, usrs)
              ELSE Response(200, {},
                            [access_token |-> create_access_token([sub |-> db_user.username]),
                             token_type |-> "bearer"], usrs)

\* POST /users/login
LoginUser(body) ==
    /\ last = NoRequest
    /\ LET response == LoginOutcome(users, body)
       IN  /\ last' = Exchange("login", 0, 0, body, response.status, response.detail,
                               response.data)
           /\ users' = response.table
    /\ UNCHANGED <<operations, calculations, call, session, deleted>>

InitUsers ==
    /\ operations = OperationsRegistry
    /\ calculations = NoRows
    /\ users = NoUsers
    /\ last = NoRequest
    /\ call = NoCall
    /\ session = NoSession
    /\ deleted = {}

NextUsers ==
    \/ Idle /\ \E body \in RegisterBodies, id \in Users, salt \in Salts :
                  RegisterUser(body, id, salt)
    \/ Idle /\ \E body \in LoginBodies : LoginUser(body)
    \/ Reply

SpecUsers == InitUsers /\ [][NextUsers]_vars

----------------------------------------------------------------------------
(* Several calculations side by side *)

FrameIds == 1..(MaxCalcs + 1)

\* the create requests made beside other rows: complete bodies of every
\* kind, with and without an owner named in the body
FrameBodies ==
    {body \in Bodies :
        /\ body.a \in Operands /\ body.b \in Operands
        /\ body.type \in TypeStrings
        /\ body.result = Unset}

NextFrame ==
    \/ Idle /\ \E u \in DOMAIN users, body \in FrameBodies, id \in FrameIds :
                  CreateCalculation(u, body, id)
    \/ Idle /\ \E id \in FrameIds, u \in DOMAIN users : DeleteCalculation(id, u)
    \/ Idle /\ \E id \in FrameIds, u \in DOMAIN users : ReadCalculation(id, u)
    \/ Idle /\ \E u \in DOMAIN users, skip \in Skips, limit \in Limits :
                  \E order \in Orders(OwnedIds(calculations, u)) :
                      ReadCalculations(u, skip, limit, order)
    \/ Reply

SpecFrame == Init /\ [][NextFrame]_vars

----------------------------------------------------------------------------
(* The mutating handlers statement by statement *)

\* the statements of update_calculation and of partial_update_calculation, as
\* the handlers run them, first to last
UpdateStepsWriteFirst == <<"query", "resolve", "setattr", "calculate", "set_result", "commit">>

UpdateSteps == <<"query", "resolve", "calculate", "set_result", "setattr", "commit">>

\* the statements of create_calculation
CreateSteps == <<"resolve", "calculate", "construct", "commit">>

\* the statements of delete_calculation
DeleteSteps == <<"query", "delete", "commit">>

Steps(op) ==
    IF op = "create" THEN CreateSteps
    ELSE IF op = "delete" THEN DeleteSteps
    ELSE UpdateSteps

\* the request bodies served statement by statement
StepBodies == {body \in Bodies : body.result = Unset}

\* the request is validated against its schema and the handler is entered
Begin(op, id, current_user, body) ==
    /\ session = NoSession
    /\ op = "create" => NewId(calculations, id)
    /\ LET errors == IF op = "create" THEN CalculationCreateErrors(body)
                     ELSE CalculationUpdateErrors(body)
       IN  IF errors # {}
           THEN /\ last' = Exchange(op, IF op = "create" THEN 0 ELSE id, current_user, body,
                                    422, errors, None)
                /\ session' = session
           ELSE /\ session' = [NoSession EXCEPT !.op = op, !.id = id, !.caller = current_user,
                                                !.body = body, !.before = calculations,
                                                !.pc = 1]
                /\ last' = last
    /\ UNCHANGED <<operations, calculations, users, call, deleted>>

\* the handler raises: the response is given and the session is closed
\* without a commit
Raised(status, detail) ==
    /\ last' = Exchange(session.op, IF session.op = "create" THEN 0 ELSE session.id,
                        session.caller, session.body, status, detail, None)
    /\ session' = [session EXCEPT !.pc = 0]
    /\ UNCHANGED <<operations, calculations>>

\* the statement is done and the handler goes on to the next one
Done(step, obj, triple, result) ==
    /\ session' = [session EXCEPT !.pc = @ + 1, !.obj = obj, !.triple = triple,
                                  !.result = result, !.trace = Append(@, step)]
    /\ UNCHANGED <<last, calculations>>

\* db.commit() of a changed row: the UPDATE sets the columns whose value in
\* the session differs from the value loaded, and no other column
Flush(stored, loaded, obj) ==
    [f \in DOMAIN obj |-> IF obj[f] # loaded[f] THEN obj[f] ELSE stored[f]]

\* the next statement of the handler in progress
Step ==
    /\ session.pc \in 1..Len(Steps(session.op))
    /\ LET step == Steps(session.op)[session.pc]
           update_data == UpdateData(session.body)
           obj == session.obj
           triple == session.triple
       IN  /\ operations' = IF step = "calculate" THEN AfterGet(operations, triple.type)
                            ELSE operations
           /\ CASE step = "query" ->
                     IF Owned(calculations, session.id, session.caller)
                     THEN Done(step, calculations[session.id], triple, session.result)
                     ELSE Raised(404, {NotFound})
                [] step = "resolve" ->
                     IF session.op = "create"
                     THEN LET calculation == CalculationCreate(session.body)
                          IN  Done(step, obj, [a |-> calculation.a, b |-> calculation.b,
                                               type |-> calculation.type], session.result)
                     ELSE Done(step, obj, [a |-> Get(update_data, "a", obj.a),
                                           b |-> Get(update_data, "b", obj.b),
                                           type |-> Get(update_data, "type", obj.type)],
                               session.result)
                [] step = "calculate" ->
                     LET result == calculate(operations, triple.type, triple.a, triple.b)
                     IN  IF result.kind = "raise" /\ result.exc = "ValueError"
                         THEN Raised(400, {result.msg})
                         ELSE IF result.kind = "raise"
                         THEN Raised(500, {InternalServerError})
                         ELSE Done(step, obj, triple, result.value)
                [] step = "set_result" ->
                     Done(step, [obj EXCEPT !.result = session.result], triple,
                          session.result)
                [] step = "setattr" ->
                     Done(step, SetAttrs(obj, update_data), triple, session.result)
                [] step = "construct" ->
                     Done(step, Row(triple.a, triple.b, triple.type, session.result,
                                    Owner(CalculationCreate(session.body), session.caller)),
                          triple, session.result)
                [] step = "delete" ->
                     Done(step, obj, triple, session.result)
                [] step = "commit" /\ session.op = "delete" ->
                     /\ calculations' = AfterDelete(calculations, session.id)
                     /\ last' = Exchange(session.op, session.id, session.caller,
                                         session.body, 204, {}, None)
                     /\ session' = [session EXCEPT !.pc = 0, !.trace = Append(@, step)]
                [] step = "commit" /\ session.op # "delete" ->
                     \E serializable \in BOOLEAN :
                       LET row == IF session.op = "create" THEN obj
                                  ELSE Flush(calculations[session.id],
                                             session.before[session.id], obj)
                       IN  IF \/ ViolatesNotNull(obj)
                              \/ session.op # "create" /\ serializable
                                   /\ calculations[session.id] # session.before[session.id]
                           THEN Raised(500, {InternalServerError})
                           ELSE /\ calculations' =
                                      [i \in DOMAIN calculations \cup {session.id} |->
                                          IF i = session.id THEN row ELSE calculations[i]]
                                /\ last' = Exchange(session.op, session.id, session.caller,
                                                    session.body,
                                                    IF session.op = "create" THEN 201 ELSE 200,
                                                    {}, CalculationRead(session.id, row))
                                /\ session' = [session EXCEPT !.pc = 0,
                                                              !.trace = Append(@, step)]
    /\ deleted' = IF session.op = "delete" /\ session.pc = Len(DeleteSteps)
                  THEN deleted \cup {session.id}
                  ELSE deleted
    /\ UNCHANGED <<users, call>>

\* no request is in flight and no handler is in progress
NotServing == Idle /\ session = NoSession

NextSteps ==
    \/ NotServing /\ \E u \in DOMAIN users, body \in StepBodies, id \in Ids :
                        Begin("create", id, u, body)
    \/ NotServing /\ \E u \in DOMAIN users, body \in StepBodies, id \in Ids :
                        Begin("put", id, u, body)
    \/ NotServing /\ \E u \in DOMAIN users, body \in StepBodies, id \in Ids :
                        Begin("patch", id, u, body)
    \/ Idle /\ Step
    \/ Reply

SpecSteps == Init /\ [][NextSteps]_vars

\* the three handlers that look a calculation up before they change it,
\* statement by statement, beside the creates that make the rows
NextGate ==
    \/ NotServing /\ \E u \in DOMAIN users, body \in StepBodies, id \in Ids :
                        Begin("create", id, u, body)
    \/ NotServing /\ \E u \in DOMAIN users, body \in StepBodies, id \in Ids :
                        Begin("put", id, u, body)
    \/ NotServing /\ \E u \in DOMAIN users, body \in StepBodies, id \in Ids :
                        Begin("patch", id, u, body)
    \/ NotServing /\ \E u \in DOMAIN users, id \in Ids : Begin("delete", id, u, EmptyBody)
    \/ Idle /\ Step
    \/ Reply

SpecGate == Init /\ [][NextGate]_vars

----------------------------------------------------------------------------
(* Two update requests on one calculation at the same time *)

\* the create requests of the concurrent runs
RaceCreateBodies == {body \in FrameBodies : body.user_id = Unset}

\* the update requests of the concurrent runs: at most one of a, b and type,
\* a value and not null
RaceBodies ==
    {body \in Bodies :
        /\ body.user_id = Unset /\ body.result = Unset
        /\ body.a \in {Unset} \cup Operands /\ body.b \in {Unset} \cup Operands
        /\ body.type \in {Unset} \cup TypeStrings
        /\ Cardinality({f \in {"a", "b", "type"} : body[f] # Unset}) <= 1}

\* the handler in progress has read its row and has not committed
HasRead == session.pc >= 2

\* no other request has committed since the handler in progress began
NoneSince == calculations = session.before

\* the client of the other request takes its response while the handler in
\* progress goes on
ReplyOther ==
    /\ last # NoRequest
    /\ last' = NoRequest
    /\ UNCHANGED <<operations, calculations, users, call, session, deleted>>

\* one handler runs statement by statement; a second request on the same id
\* is served once, from its query to its commit, between two of those
\* statements
NextRace ==
    \/ NotServing /\ \E u \in DOMAIN users, body \in RaceCreateBodies, id \in Ids :
                        CreateCalculation(u, body, id)
    \/ NotServing /\ \E u \in DOMAIN users, body \in RaceBodies, id \in Ids :
                        Begin("put", id, u, body)
    \/ NotServing /\ \E u \in DOMAIN users, body \in RaceBodies, id \in Ids :
                        Begin("patch", id, u, body)
    \/ Idle /\ Step
    \/ (Idle /\ HasRead /\ NoneSince) /\ \E u \in DOMAIN users, body \in RaceBodies :
                               UpdateCalculation(session.id, u, body)
    \/ (Idle /\ HasRead /\ NoneSince) /\ \E u \in DOMAIN users, body \in RaceBodies :
                               PartialUpdateCalculation(session.id, u, body)
    \/ HasRead /\ ReplyOther
    \/ session.pc = 0 /\ Reply

SpecRace == Init /\ [][NextRace]_vars

----------------------------------------------------------------------------
(* Two registrations at the same time *)

\* the statements of register_user: the lookup by email, the lookup by
\* username, and the hash, add and commit of the new user
RegisterSteps == <<"email", "username", "commit">>

\* the registrations of the concurrent runs: bodies UserCreate accepts, and
\* one it refuses
RaceRegisterBodies ==
    {body \in RegisterBodies :
        /\ body.username \in {Str(Rep("a", UsernameMinLength)), Str(Rep("b", UsernameMaxLength))}
        /\ body.email \in {Str(<<"u", "@", "x">>), Str(<<"v", "@", "x">>), Str(<<"notanemail">>)}
        /\ body.password = Str(Rep("p", PasswordMinLength))}

\* columns declared without unique=True: no insert is refused
UniqueViolationNever(usrs, new_user) == FALSE

\* username and email are unique=True: the INSERT of a user whose username
\* or email a stored user has fails with an IntegrityError
UniqueViolation(usrs, new_user) ==
    \E i \in DOMAIN usrs :
        \/ usrs[i].username = new_user.username
        \/ usrs[i].email = new_user.email

\* the body is validated as UserCreate and register_user is entered
BeginRegister(body) ==
    /\ session = NoSession
    /\ LET errors == UserCreateErrors(body)
       IN  IF errors # {}
           THEN /\ last' = Exchange("register", 0, 0, body, 422, errors, None)
                /\ session' = session
           ELSE /\ session' = [NoSession EXCEPT !.op = "register", !.body = body, !.pc = 1]
                /\ last' = last
    /\ UNCHANGED <<operations, calculations, users, call, deleted>>

\* register_user raises, or returns after its commit: the response is given
RegisterAnswer(step, id, status, detail, data, usrs) ==
    /\ last' = Exchange("register", id, 0, session.body, status, detail, data)
    /\ session' = [session EXCEPT !.pc = 0, !.trace = Append(@, step)]
    /\ users' = usrs

\* the next statement of the register_user in progress
RegisterStep(new_id, salt) ==
    /\ session.op = "register"
    /\ session.pc \in 1..Len(RegisterSteps)
    /\ NewId(users, new_id)
    /\ LET step == RegisterSteps[session.pc]
           user == session.body
           new_user == UserRow(user.username, user.email, hash_password(user.password, salt))
       IN  CASE step = "email" ->
                  IF \E i \in DOMAIN users : users[i].email = user.email
                  THEN RegisterAnswer(step, 0, 400, {EmailRegistered}, None, users)
                  ELSE /\ session' = [session EXCEPT !.pc = @ + 1, !.trace = Append(@, step)]
                       /\ UNCHANGED <<last, users>>
             [] step = "username" ->
                  IF \E i \in DOMAIN users : users[i].username = user.username
                  THEN RegisterAnswer(step, 0, 400, {UsernameTaken}, None, users)
                  ELSE /\ session' = [session EXCEPT !.pc = @ + 1, !.trace = Append(@, step)]
                       /\ UNCHANGED <<last, users>>
             [] step = "commit" ->
                  IF UniqueViolation(users, new_user)
                  THEN RegisterAnswer(step, 0, 500, {InternalServerError}, None, users)
                  ELSE RegisterAnswer(step, new_id, 201, {}, UserRead(new_id, new_user),
                                      [i \in DOMAIN users \cup {new_id} |->
                                          IF i = new_id THEN new_user ELSE users[i]])
    /\ UNCHANGED <<operations, calculations, call, deleted>>

\* a registration is in progress
Registering == session.pc >= 1

\* one registration runs statement by statement; other registrations are
\* served whole between two of its statements
NextRegisterRace ==
    \/ NotServing /\ \E body \in RaceRegisterBodies : BeginRegister(body)
    \/ Idle /\ \E id \in Users, salt \in Salts : RegisterStep(id, salt)
    \/ (Idle /\ Registering) /\ \E body \in RaceRegisterBodies, id \in Users, salt \in Salts :
                                   RegisterUser(body, id, salt)
    \/ Registering /\ ReplyOther
    \/ session.pc = 0 /\ Reply

SpecRegisterRace == InitUsers /\ [][NextRegisterRace]_vars

----------------------------------------------------------------------------
(* Owners: updates that name an owner, and users that are deleted *)

\* the create requests of the owners' runs: complete bodies, a fixed at 1
OwnerCreateBodies ==
    {body \in FrameBodies : body.a = Float(1, 1) /\ body.user_id = Unset}

\* the update requests of the owners' runs: a body that carries user_id or
\* nothing, with or without a new b
OwnerBodies ==
    {body \in Bodies :
        /\ body.a = Unset /\ body.type = Unset /\ body.result = Unset
        /\ body.b \in {Unset, Float(1, 1)}}

\* the row names an owner that is not in the users table
Dangling(usrs, row) == row.user_id # None /\ row.user_id.i \notin DOMAIN usrs

\* ForeignKey("users.id"): a database that enforces foreign keys refuses the
\* commit of a row whose user_id is no user's id (IntegrityError, the request
\* answers 500 and rolls back); SQLite enforces them only when the connection
\* turns them on, and then the commit goes through
Referential(calcs, usrs, enforced, response) ==
    IF /\ enforced
       /\ response.status = 200
       /\ \E i \in DOMAIN response.table :
             /\ Dangling(usrs, response.table[i])
             /\ i \in DOMAIN calcs => response.table[i].user_id # calcs[i].user_id
    THEN Response(500, {InternalServerError}, None, calcs)
    ELSE response

\* PUT and PATCH against a database that does or does not enforce foreign keys
UpdateOwned(op, calculation_id, current_user, body, enforced) ==
    UpdateHandler(op, calculation_id, current_user, body,
        Referential(calculations, users, enforced,
            IF op = "put"
            THEN UpdateOutcome(calculations, operations, calculation_id, current_user, body)
            ELSE PartialUpdateOutcome(calculations, operations, calculation_id, current_user,
                                      body)))

\* db.delete(user); db.commit(): cascade="all, delete-orphan" deletes the
\* calculations of user.calculations, the rows whose user_id is the user's id
DeleteUser(user_id) ==
    /\ last = NoRequest
    /\ user_id \in DOMAIN users
    /\ last' = Exchange("delete_user", user_id, 0, EmptyBody, 0, {}, None)
    /\ users' = [u \in DOMAIN users \ {user_id} |-> users[u]]
    /\ calculations' = [i \in {j \in DOMAIN calculations :
                                  calculations[j].user_id # PyInt(user_id)} |->
                           calculations[i]]
    /\ UNCHANGED <<operations, call, session, deleted>>

NextOwners ==
    \/ Idle /\ \E u \in DOMAIN users, body \in OwnerCreateBodies, id \in FrameIds :
                  CreateCalculation(u, body, id)
    \/ Idle /\ \E id \in FrameIds, u \in DOMAIN users, body \in OwnerBodies,
                  enforced \in BOOLEAN : UpdateOwned("put", id, u, body, enforced)
    \/ Idle /\ \E id \in FrameIds, u \in DOMAIN users, body \in OwnerBodies,
                  enforced \in BOOLEAN : UpdateOwned("patch", id, u, body, enforced)
    \/ Idle /\ \E id \in FrameIds, u \in DOMAIN users : DeleteCalculation(id, u)
    \/ Idle /\ \E u \in DOMAIN users : DeleteUser(u)
    \/ Reply

SpecOwners == Init /\ [][NextOwners]_vars

----------------------------------------------------------------------------
(* Properties of the dispatcher, checked under SpecFactory *)

\* sub occurs in msg as a run of consecutive words
Contains(msg, sub) ==
    \E i \in 1..(Len(msg) - Len(sub) + 1) : SubSeq(msg, i, i + Len(sub) - 1) = sub

DivisionByZero == <<"Division", "by", "zero">>

\* the tag names a kind of the closed set, as a member or as its string
InClosedSet(t) == IsStrLike(t) /\ t.s \in {"Add", "Subtract", "Multiply", "Divide"}

IsKind(t, s) == IsStrLike(t) /\ t.s = s

\* r is the float p/q
IsRatio(r, p, q) == IsFloat(r) /\ r.d > 0 /\ r.n * q = p * r.d

\* C6: calculate(Divide, a, b) raises the error "Division by zero is not
\* allowed" exactly when b == 0, and for every other b returns a / b.
C6_DivideFailsExactlyOnZero ==
    (call.op = "calculate" /\ IsKind(call.calc_type, "Divide")) =>
        /\ EqZero(call.b) <=> call.outcome.kind = "raise"
        /\ EqZero(call.b) => call.outcome = Raise("ValueError", DivisionMsg)
        /\ ~EqZero(call.b) =>
              /\ call.outcome.kind = "return"
              /\ IsRatio(call.outcome.value, call.a.n * call.b.d, call.a.d * call.b.n)

C6_Witness ==
    /\ call.op = "calculate" /\ call.calc_type = DIVIDE
    /\ ~EqZero(call.b) /\ call.b.d > 1
    /\ call.outcome.kind = "return"

\* C7: for Add, Subtract and Multiply, calculate returns a+b, a-b and a*b for
\* every a and b, b == 0 included, and never raises.
C7_OtherKindsNeverFail ==
    (call.op = "calculate" /\ InClosedSet(call.calc_type)
        /\ ~IsKind(call.calc_type, "Divide")) =>
        /\ call.outcome.kind = "return"
        /\ IsKind(call.calc_type, "Add") =>
              IsRatio(call.outcome.value, call.a.n * call.b.d + call.b.n * call.a.d,
                      call.a.d * call.b.d)
        /\ IsKind(call.calc_type, "Subtract") =>
              IsRatio(call.outcome.value, call.a.n * call.b.d - call.b.n * call.a.d,
                      call.a.d * call.b.d)
        /\ IsKind(call.calc_type, "Multiply") =>
              IsRatio(call.outcome.value, call.a.n * call.b.n, call.a.d * call.b.d)

C7_Witness ==
    /\ call.op = "calculate" /\ call.calc_type = SUBTRACT
    /\ EqZero(call.b) /\ ~EqZero(call.a)
    /\ call.outcome.kind = "return"

\* C8: for a tag outside the closed set, calculate and create_operation raise
\* the unsupported-type error and return nothing; the error is never the
\* division-by-zero one, also when b == 0.
C8_UnsupportedTag ==
    (call.op \in {"calculate", "create_operation"} /\ ~InClosedSet(call.calc_type)) =>
        /\ call.outcome.kind = "raise"
        /\ call.outcome.exc = "ValueError"
        /\ Contains(call.outcome.msg, <<"Unsupported", "calculation", "type:">>)
        /\ ~Contains(call.outcome.msg, DivisionByZero)
        /\ call.outcome.value = None

C8_Witness ==
    /\ call.op = "calculate" /\ call.calc_type = Str("add")
    /\ EqZero(call.b)
    /\ call.outcome.kind = "raise"

\* C9: get_supported_operations returns exactly Add, Subtract, Multiply,
\* Divide in this order, whatever calls came before it.
C9_SupportedOperations ==
    call.op = "get_supported_operations" =>
        call.outcome = Return(PyList(<<"Add", "Subtract", "Multiply", "Divide">>))

C9_Witness ==
    /\ call.op = "get_supported_operations"
    /\ call.after = "raise"
    /\ call.outcome.kind = "return"

\* C10: calculate is pure: a call repeated with the same (kind, a, b) has the
\* same outcome as the first, and a call leaves the registry, the stored
\* calculations and the users as they were.
C10_CalculateIsPure ==
    call.op = "calculate" =>
        /\ call.repeated => call.outcome = call.first
        /\ operations = call.before.operations
        /\ calculations = call.before.calculations
        /\ users = call.before.users

C10_Witness ==
    /\ call.op = "calculate" /\ call.repeated
    /\ call.outcome.kind = "raise"
    /\ calculations # NoRows

----------------------------------------------------------------------------
(* Properties of the calculation handlers, checked under Spec *)

\* r = apply(type, a, b), stated on the arithmetic and not via the dispatcher
IsApply(type, a, b, r) ==
    /\ IsFloat(a) /\ IsFloat(b) /\ InClosedSet(type)
    /\ IsKind(type, "Add") => IsRatio(r, a.n * b.d + b.n * a.d, a.d * b.d)
    /\ IsKind(type, "Subtract") => IsRatio(r, a.n * b.d - b.n * a.d, a.d * b.d)
    /\ IsKind(type, "Multiply") => IsRatio(r, a.n * b.n, a.d * b.d)
    /\ IsKind(type, "Divide") => ~EqZero(b) /\ IsRatio(r, a.n * b.d, a.d * b.n)

IsUpdate(x) == x.op \in {"put", "patch"}

IsMutation(x) == x.op \in {"create", "put", "patch"}

\* the row an update request addresses, when the caller can see it
Targets(x) == IsUpdate(x) /\ Owned(x.before, x.id, x.caller)

\* the value of field f the request works with: the supplied one, else the
\* stored one of the addressed row
Supplied(x, f) == x.body[f] # Unset

Effective(x, f) == IF Supplied(x, f) THEN x.body[f] ELSE x.before[x.id][f]

HasEffective(x, f) == Supplied(x, f) \/ Targets(x)

\* the request's effective triple is (Divide, a, 0)
DivideByZeroAttempt(x) ==
    /\ IsMutation(x)
    /\ x.op = "create" \/ Targets(x) \/ (Supplied(x, "type") /\ Supplied(x, "b"))
    /\ HasEffective(x, "type") /\ IsKind(Effective(x, "type"), "Divide")
    /\ HasEffective(x, "b") /\ EqZero(Effective(x, "b"))

Rejected(x) == x.status >= 400

ClientError(x) == x.status >= 400 /\ x.status < 500

MentionsDivisionByZero(x) == \E m \in x.detail : Contains(m, DivisionByZero)

\* C1: every stored calculation has result = apply(type, a, b) for its stored
\* type, a and b, after any sequence of create, PUT, PATCH and delete; a
\* result sent in a request body is never what is stored.
C1_ResultIsApply ==
    \A i \in DOMAIN calculations :
        IsApply(calculations[i].type, calculations[i].a, calculations[i].b,
                calculations[i].result)

C1_Witness ==
    /\ IsUpdate(last) /\ last.status = 200
    /\ Supplied(last, "result") /\ Supplied(last, "type")
    /\ calculations[last.id].result # last.before[last.id].result
    /\ calculations[last.id].result # last.body.result

\* C2: no stored calculation has type Divide with b == 0, and a create, PUT or
\* PATCH whose effective triple is (Divide, a, 0) is rejected with the table
\* as it was before the request.
C2_NoDivideByZeroStored ==
    /\ \A i \in DOMAIN calculations :
          ~(IsKind(calculations[i].type, "Divide") /\ EqZero(calculations[i].b))
    /\ DivideByZeroAttempt(last) => Rejected(last) /\ calculations = last.before

C2_Witness ==
    /\ IsUpdate(last) /\ Targets(last) /\ DivideByZeroAttempt(last)
    /\ Supplied(last, "type") /\ ~Supplied(last, "b")
    /\ Rejected(last)

\* C3: a PUT or PATCH rejected for division by zero leaves the stored row as
\* it was: a, b, type, result and user_id keep their values and no supplied
\* field is written.
C3_RejectedUpdateChangesNothing ==
    (IsUpdate(last) /\ Rejected(last) /\ MentionsDivisionByZero(last)) =>
        /\ DOMAIN calculations = DOMAIN last.before
        /\ \A i \in DOMAIN calculations :
              \A f \in {"a", "b", "type", "result", "user_id"} :
                  calculations[i][f] = last.before[i][f]

C3_Witness ==
    /\ IsUpdate(last) /\ Targets(last) /\ last.status = 400
    /\ MentionsDivisionByZero(last)
    /\ Supplied(last, "a") /\ last.body.a # None /\ last.body.a # last.before[last.id].a
    /\ Supplied(last, "user_id") /\ last.body.user_id # last.before[last.id].user_id

\* C4: a successful PUT or PATCH leaves each field the request omits (a, b,
\* type, and the owner too) at its stored value, stores the supplied a, b and
\* type, and stores as result apply of the effective triple (supplied values,
\* stored values for omitted ones).
C4_PartialUpdate ==
    (IsUpdate(last) /\ last.status = 200) =>
        /\ last.id \in DOMAIN calculations
        /\ \A f \in {"a", "b"} : calculations[last.id][f] = Effective(last, f)
        /\ KeyEq(calculations[last.id].type, Effective(last, "type"))
        /\ \A f \in {"a", "b", "type", "user_id"} :
              ~Supplied(last, f) => calculations[last.id][f] = last.before[last.id][f]
        /\ IsApply(Effective(last, "type"), Effective(last, "a"), Effective(last, "b"),
                   calculations[last.id].result)

C4_Witness ==
    /\ IsUpdate(last) /\ last.status = 200
    /\ Supplied(last, "type") /\ ~Supplied(last, "a") /\ ~Supplied(last, "b")
    /\ last.before[last.id].type = Str("Add") /\ calculations[last.id].type = Str("Subtract")
    /\ ~EqZero(calculations[last.id].a) /\ ~EqZero(calculations[last.id].b)
    /\ calculations[last.id].result # last.before[last.id].result

\* C5: every divide-by-zero attempt on create, PUT or PATCH is answered with a
\* 4xx status and a message containing "Division by zero", from the schema
\* and from the handler alike.
C5_DivideByZeroIsClientError ==
    DivideByZeroAttempt(last) => ClientError(last) /\ MentionsDivisionByZero(last)

C5_Witness ==
    /\ IsUpdate(last) /\ Targets(last) /\ DivideByZeroAttempt(last)
    /\ ~Supplied(last, "type") /\ Supplied(last, "b")
    /\ last.status = 400 /\ MentionsDivisionByZero(last)

\* C11: PUT and PATCH enforce the validation gate identically: from the same
\* stored state, for the same caller, id and body, the request served by one
\* handler has the response status and leaves the stored state that the other
\* handler gives.
C11_PutPatchAgree ==
    /\ last.op = "put" =>
          LET patch == PartialUpdateOutcome(last.before, operations, last.id, last.caller,
                                            last.body)
          IN  last.status = patch.status /\ calculations = patch.table
    /\ last.op = "patch" =>
          LET put == UpdateOutcome(last.before, operations, last.id, last.caller, last.body)
          IN  last.status = put.status /\ calculations = put.table

C11_Witness ==
    /\ last.op = "patch" /\ Targets(last)
    /\ last.status = 400
    /\ Supplied(last, "b") /\ ~Supplied(last, "type")

----------------------------------------------------------------------------
(* Properties of the handlers' statement order, checked under SpecSteps *)

WriteSteps == {"set_result", "setattr", "construct", "commit"}

\* statement first is in the trace before position i
Before(trace, first, i) == \E j \in 1..(i - 1) : trace[j] = first

\* C12: in a create, PUT or PATCH the effective triple is resolved, then the
\* dispatcher is invoked, then the row is written: every statement that sets
\* a field of the row or commits comes after the dispatcher has returned a
\* result for the resolved triple, the row in the session differs from the
\* stored one only then, and the stored table changes only by the commit.
C12_DispatchBeforeWrite ==
    LET trace == session.trace
    IN  /\ \A i \in 1..Len(trace) :
              /\ trace[i] \in WriteSteps => Before(trace, "calculate", i)
              /\ trace[i] = "calculate" => Before(trace, "resolve", i)
        /\ (session # NoSession /\ session.obj # None
              /\ (session.op = "create" \/ session.obj # session.before[session.id])) =>
              /\ Before(trace, "calculate", Len(trace) + 1)
              /\ IsFloat(session.result)
              /\ IsApply(session.triple.type, session.triple.a, session.triple.b,
                         session.result)
        /\ (session # NoSession /\ calculations # session.before) =>
              trace[Len(trace)] = "commit"

C12_Witness ==
    /\ session.op = "patch"
    /\ Len(session.trace) > 0 /\ session.trace[Len(session.trace)] = "commit"
    /\ calculations # session.before
    /\ last.status = 200

\* the calculations a response returns: the items of a list, or the one body
Returned(x) ==
    IF x.data = None THEN {}
    ELSE IF "items" \in DOMAIN x.data THEN {x.data.items[i] : i \in 1..Len(x.data.items)}
    ELSE {x.data}

\* C13: a Calculation that exists always has a result: every stored one has a
\* numeric result, and every create, read, list, PUT or PATCH response that
\* returns a Calculation carries its numeric result.
C13_ResultNeverAbsent ==
    /\ \A i \in DOMAIN calculations : IsFloat(calculations[i].result)
    /\ (last.op \in {"create", "get", "put", "patch"} /\ last.status \in {200, 201}) =>
          Returned(last) # {}
    /\ \A c \in Returned(last) : "result" \in DOMAIN c /\ IsFloat(c.result)

C13_Witness ==
    /\ last.op = "list" /\ last.status = 200
    /\ Returned(last) # {}
    /\ \A i \in DOMAIN calculations : IsFloat(calculations[i].result)

\* C14: the type of every stored and of every returned Calculation is one of
\* the exact strings "Add", "Subtract", "Multiply", "Divide"; a create or an
\* update whose body carries any other type string, "add" included, is
\* rejected and leaves the stored calculations as they were.
C14_TypeIsExactString ==
    /\ \A i \in DOMAIN calculations : calculations[i].type \in TypeStrings
    /\ \A c \in Returned(last) : c.type \in TypeStrings
    /\ (IsMutation(last) /\ last.body.type.tag = "str" /\ last.body.type \notin TypeStrings) =>
          /\ Rejected(last)
          /\ calculations = last.before

C14_Witness ==
    /\ last.op = "patch" /\ Targets(last)
    /\ last.body.type = Str("add")
    /\ Rejected(last)
    /\ calculations = last.before

----------------------------------------------------------------------------
(* Properties of create, read and delete beside other rows, checked under
   SpecFrame *)

\* C15: a successful create stores exactly one new Calculation: its a, b and
\* type are the request's, its result is apply(type, a, b), its owner is the
\* authenticated caller whatever user_id the body carries, and every
\* Calculation stored before is unchanged.
C15_CreateStoresOneRow ==
    (last.op = "create" /\ last.status = 201) =>
        /\ last.id \notin DOMAIN last.before
        /\ DOMAIN calculations = DOMAIN last.before \cup {last.id}
        /\ LET row == calculations[last.id]
           IN  /\ row.a = last.body.a /\ row.b = last.body.b /\ row.type = last.body.type
               /\ IsApply(row.type, row.a, row.b, row.result)
               /\ row.user_id = PyInt(last.caller)
        /\ \A i \in DOMAIN last.before : calculations[i] = last.before[i]

C15_Witness ==
    /\ last.op = "create" /\ last.status = 201
    /\ last.before # NoRows
    /\ last.body.user_id \in {PyInt(u) : u \in Users \ {last.caller}}
    /\ \E i \in DOMAIN last.before : last.before[i].user_id # PyInt(last.caller)

\* row id of the table, as a response carries it
AsReturned(calcs, id) ==
    [id |-> id, a |-> calcs[id].a, b |-> calcs[id].b, type |-> calcs[id].type,
     result |-> calcs[id].result, user_id |-> calcs[id].user_id]

\* C16: reads are isolated by owner and change nothing: GET /calculations/
\* returns only Calculations whose owner is the caller, GET /calculations/{id}
\* returns the Calculation when the caller owns it and answers 404 for an id
\* that does not exist or that another user owns, and after either read the
\* stored calculations and users are as before.
C16_ReadIsolation ==
    /\ last.op = "list" =>
          /\ last.status = 200
          /\ \A c \in Returned(last) :
                /\ c.id \in DOMAIN last.before
                /\ last.before[c.id].user_id = PyInt(last.caller)
                /\ c = AsReturned(last.before, c.id)
    /\ last.op = "get" =>
          IF last.id \in DOMAIN last.before
               /\ last.before[last.id].user_id = PyInt(last.caller)
          THEN last.status = 200 /\ last.data = AsReturned(last.before, last.id)
          ELSE last.status = 404 /\ last.data = None
    /\ last.op \in {"list", "get"} => calculations = last.before /\ users = last.users_before

C16_Witness ==
    /\ last.op = "get" /\ last.status = 404
    /\ last.id \in DOMAIN last.before
    /\ \E i \in DOMAIN last.before : last.before[i].user_id = PyInt(last.caller)

\* a successful DELETE removes the addressed row of the caller and nothing
\* else
RemovesExactlyThat(x) ==
    /\ x.id \in DOMAIN x.before
    /\ x.before[x.id].user_id = PyInt(x.caller)
    /\ DOMAIN calculations = DOMAIN x.before \ {x.id}
    /\ \A i \in DOMAIN calculations : calculations[i] = x.before[i]
    /\ users = x.users_before

\* C17 as stated: a successful DELETE by the owner answers 204 and removes
\* exactly that Calculation, all other Calculations and all Users are
\* unchanged, and every later GET of that id answers 404.
C17_DeletedIdStaysGone ==
    /\ (last.op = "delete" /\ Owned(last.before, last.id, last.caller)) =>
          last.status = 204 /\ RemovesExactlyThat(last)
    /\ (last.op = "get" /\ last.id \in deleted) => last.status = 404

\* C17: a successful DELETE by the owner answers 204 and removes exactly that
\* Calculation, all other Calculations and all Users are unchanged, and every
\* later GET of that id answers 404 for as long as no later create has been
\* given the same id.
C17_DeleteRemovesOneRow ==
    /\ (last.op = "delete" /\ Owned(last.before, last.id, last.caller)) =>
          last.status = 204 /\ RemovesExactlyThat(last)
    /\ (last.op = "get" /\ last.id \in deleted /\ last.id \notin DOMAIN last.before) =>
          last.status = 404

C17_Witness ==
    /\ last.op = "get" /\ last.id \in deleted
    /\ last.status = 404
    /\ \E i \in DOMAIN calculations : calculations[i].user_id = PyInt(last.caller)

----------------------------------------------------------------------------
(* Properties of registration and login, checked under SpecUsers *)

\* the registration reached the handler
Registers(x) == x.op = "register" /\ x.status # 422

EmailExists(x) == \E i \in DOMAIN x.users_before : x.users_before[i].email = x.body.email

UsernameExists(x) ==
    \E i \in DOMAIN x.users_before : x.users_before[i].username = x.body.username

RefusedAs(x, msg) == x.status = 400 /\ x.detail = {msg} /\ users = x.users_before

\* C18 as stated: a registration whose email is an existing user's is answered
\* 400 "Email already registered", and one whose username is an existing
\* user's is answered 400 "Username already taken"; no user is created and
\* the existing users are unchanged.
C18_DuplicateRefusedByField ==
    Registers(last) =>
        /\ EmailExists(last) => RefusedAs(last, <<"Email", "already", "registered">>)
        /\ UsernameExists(last) => RefusedAs(last, <<"Username", "already", "taken">>)

\* C18: a registration whose email is an existing user's is answered 400
\* "Email already registered", and one whose username is an existing user's
\* while its email is no existing user's is answered 400 "Username already
\* taken"; no user is created and the existing users are unchanged.
C18_DuplicateRefused ==
    Registers(last) =>
        /\ EmailExists(last) => RefusedAs(last, <<"Email", "already", "registered">>)
        /\ (UsernameExists(last) /\ ~EmailExists(last)) =>
              RefusedAs(last, <<"Username", "already", "taken">>)

C18_Witness ==
    /\ Registers(last)
    /\ UsernameExists(last) /\ ~EmailExists(last)
    /\ last.status = 400
    /\ users = last.users_before

\* a user has the username of the login and the password of the login
\* verifies against that user's stored hash
Verifies(x) ==
    \E i \in DOMAIN x.users_before :
        /\ x.users_before[i].username = x.body.username
        /\ verify_password(x.body.password, x.users_before[i].password_hash)

\* C19: a login that reaches the handler is answered 200 with an access token
\* and token_type "bearer" exactly when a user with the username exists and
\* the password verifies against that user's stored hash; otherwise it is
\* answered 401 with the detail "Invalid credentials", the same for an unknown
\* username and for a wrong password; a login changes no stored state.
C19_LoginIffVerified ==
    (last.op = "login" /\ last.status # 422) =>
        /\ IF Verifies(last)
           THEN /\ last.status = 200
                /\ last.data.token_type = "bearer"
                /\ last.data.access_token.sub = last.body.username
           ELSE /\ last.status = 401
                /\ last.detail = {<<"Invalid", "credentials">>}
                /\ last.data = None
        /\ users = last.users_before
        /\ calculations = last.before

C19_Witness ==
    /\ last.op = "login" /\ last.status = 401
    /\ UsernameExists(last) /\ ~Verifies(last)
    /\ last.detail = {<<"Invalid", "credentials">>}

\* C20: UserCreate accepts a registration only if all three fields are
\* present, the username has 3 to 50 characters and the password has 8 to 100
\* characters; a registration that violates a bound is rejected before the
\* handler runs and creates no user.
C20_UserCreateBounds ==
    last.op = "register" =>
        LET present == \A f \in {"username", "email", "password"} : last.body[f] # Unset
            bounded == /\ Len(last.body.username.s) >= 3 /\ Len(last.body.username.s) <= 50
                       /\ Len(last.body.password.s) >= 8 /\ Len(last.body.password.s) <= 100
        IN  /\ last.status # 422 => present /\ bounded
            /\ ~(present /\ bounded) =>
                  /\ last.status = 422
                  /\ \E e \in last.detail : e.loc \in {"username", "email", "password"}
                  /\ users = last.users_before

C20_Witness ==
    /\ last.op = "register" /\ last.status = 422
    /\ last.users_before # NoUsers
    /\ last.body.username # Unset /\ last.body.email # Unset /\ last.body.password # Unset
    /\ IsEmail(last.body.email)
    /\ Len(last.body.username.s) = 50
    /\ Len(last.body.password.s) = 101

\* C21: the schemas reject a zero divisor for Divide only. A create or update
\* body that supplies b = 0 with type Add, Subtract or Multiply passes schema
\* validation (no 422 when the body's other fields are valid), and one that
\* supplies b = 0 with type Divide is refused with a validation error whose
\* message contains "Division by zero".
SuppliesZeroWith(x, kinds) ==
    /\ IsMutation(x)
    /\ EqZero(x.body.b)
    /\ x.body.type \in {Str(k) : k \in kinds}

OtherFieldsValid(x) == x.op = "create" => IsFloat(x.body.a)

C21_ZeroDivisorOnlyForDivide ==
    /\ (SuppliesZeroWith(last, {"Add", "Subtract", "Multiply"}) /\ OtherFieldsValid(last))
          => last.status # 422
    /\ SuppliesZeroWith(last, {"Divide"})
          => last.status = 422 /\ MentionsDivisionByZero(last)

C21_Witness ==
    /\ last.op = "patch" /\ Targets(last)
    /\ SuppliesZeroWith(last, {"Multiply"})
    /\ last.status = 200
    /\ EqZero(calculations[last.id].b)

\* C22: deleting a user removes every calculation that user owns and leaves
\* the calculations of the other users as they were; in every reachable state
\* each calculation has at most one owner, and an owner that is set is a user
\* of the users table.
OwnersOf(row) == {u \in Users : row.user_id = PyInt(u)}

UserDeleteCascades(x) ==
    /\ DOMAIN calculations = {i \in DOMAIN x.before : x.before[i].user_id # PyInt(x.id)}
    /\ \A i \in DOMAIN calculations : calculations[i] = x.before[i]

C22_OwnersExist ==
    /\ last.op = "delete_user" => UserDeleteCascades(last)
    /\ \A i \in DOMAIN calculations :
          /\ Cardinality(OwnersOf(calculations[i])) <= 1
          /\ calculations[i].user_id # None => calculations[i].user_id.i \in DOMAIN users

\* the part of C22 about the deletion of a user alone
C22_UserDeleteCascades == last.op = "delete_user" => UserDeleteCascades(last)

C22_CascadeReached ==
    /\ last.op = "delete_user"
    /\ \E i \in DOMAIN last.before : i \notin DOMAIN calculations
    /\ calculations # NoRows

\* C23: when two update requests on the same calculation interleave, both
\* reading the stored row before either commits and each writing result and
\* the fields it supplied, every committed state still has result =
\* apply(type, a, b) for the stored type, a and b.
C23_RaceKeepsResult ==
    \A i \in DOMAIN calculations :
        LET row == calculations[i]
        IN  IsApply(row.type, row.a, row.b, row.result)

\* C24: interleaved update requests, such as one supplying only type = Divide
\* and another only b = 0, leave no committed calculation with type Divide
\* and b = 0.
C24_RaceKeepsDivisor ==
    \A i \in DOMAIN calculations :
        IsKind(calculations[i].type, "Divide") => ~EqZero(calculations[i].b)

\* C25: a PUT or PATCH of a calculation the caller owns that supplies only
\* type = Divide while the stored b is 0, or only b = 0 while the stored type
\* is Divide, answers 400 with the detail "Division by zero is not allowed"
\* and leaves the stored table as it was.
OnlySupplies(x, f) == \A g \in Fields : (x.body[g] # Unset) <=> (g = f)

CompletesDivideByZero(x) ==
    /\ IsUpdate(x) /\ Targets(x)
    /\ \/ /\ OnlySupplies(x, "type") /\ x.body.type = Str("Divide")
          /\ EqZero(x.before[x.id].b)
       \/ /\ OnlySupplies(x, "b") /\ EqZero(x.body.b)
          /\ IsKind(x.before[x.id].type, "Divide")

C25_StoredHalfRejected ==
    CompletesDivideByZero(last) =>
        /\ last.status = 400
        /\ last.detail = {<<"Division", "by", "zero", "is", "not", "allowed">>}
        /\ calculations = last.before

C25_Witness ==
    /\ CompletesDivideByZero(last)
    /\ last.op = "put" /\ OnlySupplies(last, "b")
    /\ last.status = 400
    /\ ~EqZero(calculations[last.id].b)

C25_WitnessType ==
    /\ CompletesDivideByZero(last)
    /\ last.op = "patch" /\ OnlySupplies(last, "type")
    /\ last.status = 400

\* a PUT, PATCH or DELETE whose id is no row of the caller's
MissesRow(x) ==
    /\ x.op \in {"put", "patch", "delete"}
    /\ \/ x.id \notin DOMAIN x.before
       \/ x.before[x.id].user_id # PyInt(x.caller)

\* the request was answered 404 "Calculation not found" before any call of
\* the dispatcher, and the table is the one before the request
NotFoundUntouched(x) ==
    /\ x.status = 404 /\ x.detail = {<<"Calculation", "not", "found">>}
    /\ \A i \in 1..Len(session.trace) : session.trace[i] # "calculate"
    /\ calculations = x.before

\* C26 as stated: every PUT, PATCH or DELETE on an id that does not exist or
\* belongs to another user answers 404 "Calculation not found" without
\* invoking the dispatcher and leaves every stored calculation unchanged.
C26_MissingIsNotFound == MissesRow(last) => NotFoundUntouched(last)

\* C26: a DELETE, or a PUT or PATCH whose body passes CalculationUpdate
\* validation, on an id that does not exist or belongs to another user
\* answers 404 "Calculation not found" without invoking the dispatcher and
\* leaves every stored calculation unchanged.
C26_ValidMissingIsNotFound ==
    (MissesRow(last) /\ CalculationUpdateErrors(last.body) = {}) => NotFoundUntouched(last)

C26_Witness ==
    /\ MissesRow(last) /\ last.op = "delete"
    /\ last.id \in DOMAIN last.before
    /\ NotFoundUntouched(last)

\* C27: ownership is stable: the user_id of a stored calculation is the id
\* of the user whose create request made it, and no later create, PUT, PATCH
\* or delete, a PUT or PATCH that carries user_id included, gives a stored
\* calculation another owner or none.
C27_OwnershipStable ==
    /\ (last.op = "create" /\ last.status = 201) =>
          calculations[last.data.id].user_id = PyInt(last.caller)
    /\ last.op \in {"create", "put", "patch", "delete"} =>
          \A i \in DOMAIN last.before \cap DOMAIN calculations :
              calculations[i].user_id = last.before[i].user_id

\* C28: every PUT or PATCH that passes CalculationUpdate validation and
\* addresses a calculation of the caller, one that supplies null for a, b or
\* type included, either commits (200) or is refused with 400 for one of the
\* two errors of the dispatcher, division by zero or unsupported type; the
\* dispatcher fails in no other way.
MentionsUnsupportedType(x) ==
    \E m \in x.detail : Contains(m, <<"Unsupported", "calculation", "type:">>)

C28_TwoErrorKindsOnly ==
    (IsUpdate(last) /\ last.status # 422
       /\ last.id \in DOMAIN last.before
       /\ last.before[last.id].user_id = PyInt(last.caller)) =>
        \/ last.status = 200
        \/ /\ last.status = 400
           /\ MentionsDivisionByZero(last) \/ MentionsUnsupportedType(last)

\* C29: after any sequence of registrations, two of them with the same email
\* or the same username whose lookups both ran before either committed
\* included, no two stored users have the same email and no two have the same
\* username.
C29_UsersUnique ==
    \A i, j \in DOMAIN users :
        i # j => /\ users[i].email # users[j].email
                 /\ users[i].username # users[j].username

C29_Witness ==
    /\ session.op = "register" /\ session.trace = <<"email", "username", "commit">>
    /\ last.op = "register" /\ last.status = 500
    /\ \E i \in DOMAIN users :
          /\ users[i].username = session.body.username
          /\ users[i].email # session.body.email
    /\ Cardinality(DOMAIN users) = 1

\* C30: the dispatcher treats a tag given as the exact string value as it
\* treats the member: for "Add", "Subtract", "Multiply" and "Divide" and all
\* a and b, calculate with the string has the outcome (the value returned or
\* the error raised) of calculate with the member of that value, which is how
\* an update that omits type dispatches on the stored string.
MemberOf(t) == CHOOSE m \in {ADD, SUBTRACT, MULTIPLY, DIVIDE} : m.s = t.s

C30_StringTagAsMember ==
    (call.op = "calculate" /\ call.calc_type.tag = "str" /\ InClosedSet(call.calc_type)) =>
        call.outcome = calculate(call.before.operations, MemberOf(call.calc_type),
                                 call.a, call.b)

C30_Witness ==
    /\ call.op = "calculate" /\ call.calc_type = Str("Divide")
    /\ ~EqZero(call.b) /\ call.a.n < 0
    /\ call.outcome.kind = "return"
    /\ IsRatio(call.outcome.value, call.a.n * call.b.d, call.a.d * call.b.n)

====
